---- MODULE Spec2Model ----
(***************************************************************************)
(* micrograd: a scalar reverse-mode automatic-differentiation engine       *)
(* (micrograd/engine.py, class Value) and the neural-network modules built *)
(* on it (micrograd/nn.py, classes Module, Neuron, Layer, MLP).            *)
(*                                                                         *)
(* Every Value object is one entry of the sequence `nodes`; its index is   *)
(* its identity.  Numbers are integers: all arithmetic of the engine on    *)
(* integer-valued data is exact in Python as well.                         *)
(***************************************************************************)
EXTENDS Integers, Sequences, FiniteSets, TLC

\* ---------------------------------------------------------------- bounds
MaxNodes == 4          \* Value objects of a graph built freely (Spec)
MaxBackward == 1       \* backward() calls on such a graph (Spec)
MaxOps == 1            \* operations applied to the two leaves (SpecOps)
MaxPasses == 2         \* backward() calls after them (SpecOps)
OrderBits == 2         \* independent set-iteration-order choices
LeafVals == {-3, 2}    \* data of the leaves the caller constructs
Literals == {-1}       \* raw numbers passed as right-hand operand
Exponents == {2, 3}    \* fixed exponents passed to __pow__
MaxData == 200         \* largest |data| a constructed node may hold
MaxInputs == 2         \* input width of a module (SpecNN)
MaxWidth == 2          \* neurons of a layer (SpecNN)
MaxLayers == 2         \* layers of an MLP (SpecNN)
MaxForward == 1        \* forward calls of the module (SpecNN)
MaxCalls == 4          \* calls on the module and its output (SpecNN)
NumSeeds == 3          \* seeds of the random source (SpecNN)
InputVals == {-1, 1}   \* data of the input nodes (SpecNN)

VARIABLES
    nodes,    \* the Value objects: [data, grad, op, args, prev, p]
    err,      \* the exception the last call raised, "" when it returned
    last,     \* record of the last call (history, for stating properties)
    layers,   \* the module under test: its layers, each a sequence of neurons
    kind,     \* "Neuron", "Layer" or "MLP" ("" when no module is built)
    out,      \* what the last forward call of the module returned
    hist      \* the backward / zero_grad calls since that forward call

vars == <<nodes, err, last, layers, kind, out, hist>>

\* ------------------------------------------------------------- Value
Ids(ns) == 1..Len(ns)

\* The member of a one-element set.  Written Only({F(x) : x \in {e}}) it
\* evaluates e once and hands its value to F, as a call evaluates its
\* argument once.
Only(S) == CHOOSE r \in S : TRUE

\* Value.__init__: data, grad = 0.0, _prev = set(_childern), _op.
\* `args` keeps the operands as the closure of _backward captures them
\* (self, other), `prev` is the set the constructor builds from them.
Value(data, childern, op, p) ==
    [data |-> data, grad |-> 0, op |-> op, args |-> childern,
     prev |-> {childern[k] : k \in 1..Len(childern)}, p |-> p]

\* A right-hand operand is a Value (by identity) or a raw number.
NodeArg(i) == [isValue |-> TRUE, v |-> i]
LitArg(c) == [isValue |-> FALSE, v |-> c]

\* other = other if isinstance(other, Value) else Value(other)
\* Returns the graph after the coercion; the operand is then CoerceId.
Coerce(ns, other) ==
    IF other.isValue THEN ns ELSE Append(ns, Value(other.v, <<>>, "", 0))

CoerceId(ns, other) ==
    IF other.isValue THEN other.v ELSE Len(ns) + 1

RECURSIVE IPow(_, _)
\* x ** n for an integer n >= 0
IPow(x, n) == IF n = 0 THEN 1 ELSE x * IPow(x, n - 1)

\* Value.__add__: out = Value(self.data + other.data, (self, other), '+')
AddNode(ns, i, other) ==
    LET j == CoerceId(ns, other)
    IN Only({Append(ns1, Value(ns1[i].data + ns1[j].data, <<i, j>>, "+", 0)) :
                ns1 \in {Coerce(ns, other)}})

\* Value.__mul__: out = Value(self.data * other.data, (self, other), '*')
MulNode(ns, i, other) ==
    LET j == CoerceId(ns, other)
    IN Only({Append(ns1, Value(ns1[i].data * ns1[j].data, <<i, j>>, "*", 0)) :
                ns1 \in {Coerce(ns, other)}})

\* Value.__pow__ past its assertion: out = Value(self.data**other, (self,), ..)
PowNode(ns, i, n) ==
    Append(ns, Value(IPow(ns[i].data, n), <<i>>, "**", n))

\* t = (math.exp(2*n) - 1) / (math.exp(2*n) + 1) at the precision of the
\* model, whose numbers are integers: the quotient rounded to the nearest
\* integer.  The float result is exactly 0 for n = 0 and exactly 1 or -1
\* from |n| = 19 on, where exp(2n) +- 1 rounds to exp(2n) or to +-1.
Tanh(n) == IF n = 0 THEN 0 ELSE IF n > 0 THEN 1 ELSE -1

\* Value.tanh: out = Value(t, (self, ), 'tanh')
TanhNode(ns, i) ==
    Only({Append(ns1, Value(Tanh(ns1[i].data), <<i>>, "tanh", 0)) : ns1 \in {ns}})

\* ------------------------------------------------- local backward rules
\* Each rule maps the graph to the graph after out._backward() ran.
Bump(ns, i, d) == [ns EXCEPT ![i].grad = @ + d]

\* __add__._backward: self.grad += 1.0 * out.grad; other.grad += 1.0 * out.grad
AddRuleOncePerOperand(ns, o) ==
    LET a == ns[o].args[1]
        b == ns[o].args[2]
    IN Only({IF a = b THEN ns1 ELSE Bump(ns1, b, 1 * ns1[o].grad) :
                ns1 \in {Bump(ns, a, 1 * ns[o].grad)}})

AddRule(ns, o) ==
    LET a == ns[o].args[1]
        b == ns[o].args[2]
    IN Only({Bump(ns1, b, 1 * ns1[o].grad) :
                ns1 \in {Bump(ns, a, 1 * ns[o].grad)}})

\* __mul__._backward: self.grad += other.data * out.grad;
\*                    other.grad += self.data * out.grad
MulRuleSwapped(ns, o) ==
    LET a == ns[o].args[1]
        b == ns[o].args[2]
    IN Only({Bump(ns1, b, ns1[b].data * ns1[o].grad) :
                ns1 \in {Bump(ns, a, ns[a].data * ns[o].grad)}})

MulRule(ns, o) ==
    LET a == ns[o].args[1]
        b == ns[o].args[2]
    IN Only({Bump(ns1, b, ns1[a].data * ns1[o].grad) :
                ns1 \in {Bump(ns, a, ns[b].data * ns[o].grad)}})

\* __pow__._backward: self.grad += (other * self.data ** (other - 1)) * out.grad
PowRule(ns, o) ==
    LET a == ns[o].args[1]
    IN Bump(ns, a, (ns[o].p * IPow(ns[a].data, ns[o].p - 1)) * ns[o].grad)

\* tanh._backward: self.grad += (1 - t**2) * out.grad, t the forward result
TanhRule(ns, o) ==
    LET a == ns[o].args[1]
        t == ns[o].data
    IN Bump(ns, a, (1 - IPow(t, 2)) * ns[o].grad)

\* node._backward(): the closure bound by the operation that made the node,
\* `lambda: None` for a leaf.
LocalBackward(ns, o) ==
    CASE ns[o].op = "+" -> AddRule(ns, o)
      [] ns[o].op = "*" -> MulRule(ns, o)
      [] ns[o].op = "**" -> PowRule(ns, o)
      [] ns[o].op = "tanh" -> TanhRule(ns, o)
      [] OTHER -> ns

\* ------------------------------------------------------------ backward
\* Iteration order of the set v._prev.  A set has no order of its own: the
\* order choice h is the set of nodes whose two operands are iterated with
\* the younger one first, every other node iterates the older one first.
SetMin(S) == CHOOSE x \in S : \A y \in S : x <= y
SetMax(S) == CHOOSE x \in S : \A y \in S : y <= x

IterPrev(ns, v, h) ==
    LET S == ns[v].prev
    IN IF S = {} THEN <<>>
       ELSE IF Cardinality(S) = 1 THEN <<SetMin(S)>>
       ELSE IF v \in h THEN <<SetMax(S), SetMin(S)>>
       ELSE <<SetMin(S), SetMax(S)>>

RECURSIVE build_topo(_, _, _, _)
RECURSIVE build_children(_, _, _, _)
\* def build_topo(v):
\*     if v not in visited:
\*         visited.add(v)
\*         for child in v._prev: build_topo(child)
\*     topo.append(v)
\* st = [topo, visited]; the append is outside the `if`.
build_topo(ns, v, h, st) ==
    LET Visit(s) ==
            IF v \notin s.visited
            THEN [build_children(ns, IterPrev(ns, v, h), h,
                                 [s EXCEPT !.visited = @ \cup {v}])
                     EXCEPT !.topo = Append(@, v)]
            ELSE [s EXCEPT !.topo = Append(@, v)]
    IN Only({Visit(s) : s \in {st}})

build_children(ns, kids, h, st) ==
    LET Each(s) ==
            IF kids = <<>> THEN s
            ELSE build_children(ns, Tail(kids), h, build_topo(ns, Head(kids), h, s))
    IN Only({Each(s) : s \in {st}})

Topo(ns, root, h) == build_topo(ns, root, h, [topo |-> <<>>, visited |-> {}]).topo

Reverse(s) == [k \in 1..Len(s) |-> s[Len(s) + 1 - k]]

\* self.grad = 1
SeedGradAccumulate(ns, root) == [ns EXCEPT ![root].grad = @ + 1]

SeedGrad(ns, root) == [ns EXCEPT ![root].grad = 1]

RECURSIVE Walk(_, _)
\* for node in reversed(topo): node._backward()
Walk(ns, order) ==
    LET Each(g) ==
            IF order = <<>> THEN g
            ELSE Walk(LocalBackward(g, Head(order)), Tail(order))
    IN Only({Each(g) : g \in {ns}})

\* Value.backward as a function of the graph, the root and the order choice
BackwardResult(ns, root, h) ==
    Only({Walk(SeedGrad(ns, root), order) : order \in {Reverse(Topo(ns, root, h))}})

RECURSIVE Reach(_, _)
\* the nodes reachable from the nodes of S by following operand edges
Reach(ns, S) ==
    LET T == S \cup UNION {ns[v].prev : v \in S}
    IN IF T = S THEN S ELSE Reach(ns, T)

RECURSIVE Youngest(_, _)
\* the n largest members of S
Youngest(S, n) ==
    IF n = 0 \/ S = {} THEN {}
    ELSE {SetMax(S)} \cup Youngest(S \ {SetMax(S)}, n - 1)

\* The order choices explored for one backward call: any iteration order at
\* the OrderBits youngest two-operand nodes reachable from the root.
OrderChoices(ns, root) ==
    SUBSET Youngest({v \in Reach(ns, {root}) : Cardinality(ns[v].prev) = 2}, OrderBits)

\* the bound on the magnitude of the data of the newest node
InRange(ns) == ns[Len(ns)].data <= MaxData /\ -ns[Len(ns)].data <= MaxData

Grads(ns) == [k \in 1..Len(ns) |-> ns[k].grad]

\* the record of a call: its name, its receiver, its right-hand operand,
\* the graph it started from and, for backward, the sequence built and the
\* gradients each order choice leaves
Call(name, root, other, before) ==
    [op |-> name, root |-> root, arg |-> other, before |-> before,
     topo |-> <<>>, alt |-> {}]

NoArg == LitArg(0)

BackwardCalls == Len(SelectSeq(hist, LAMBDA e : e.op = "backward"))

\* ---------------------------------------------------- engine operations
UnchangedModule == UNCHANGED <<layers, kind, out>>

\* the caller constructs a leaf: Value(d)
NewValue ==
    /\ Len(nodes) < MaxNodes
    /\ \E d \in LeafVals :
          nodes' = Append(nodes, Value(d, <<>>, "", 0))
    /\ err' = ""
    /\ last' = Call("Value", 0, NoArg, <<>>)
    /\ UNCHANGED hist
    /\ UnchangedModule

Operands ==
    {NodeArg(j) : j \in Ids(nodes)} \cup {LitArg(c) : c \in Literals}

Cost(other) == IF other.isValue THEN 1 ELSE 2

\* nodes[i] + other, while the graph has room for the result
Add(limit) ==
    /\ \E i \in Ids(nodes), other \in Operands :
          /\ Len(nodes) + Cost(other) <= limit
          /\ InRange(AddNode(nodes, i, other))
          /\ nodes' = AddNode(nodes, i, other)
    /\ err' = ""
    /\ last' = Call("add", 0, NoArg, <<>>)
    /\ UNCHANGED hist
    /\ UnchangedModule

\* nodes[i] * other
Mul(limit) ==
    /\ \E i \in Ids(nodes), other \in Operands :
          /\ Len(nodes) + Cost(other) <= limit
          /\ InRange(MulNode(nodes, i, other))
          /\ nodes' = MulNode(nodes, i, other)
    /\ err' = ""
    /\ last' = Call("mul", 0, NoArg, <<>>)
    /\ UNCHANGED hist
    /\ UnchangedModule

\* nodes[i] ** other with the result constructed before the exponent is checked
PowUnchecked(i, other) ==
    /\ nodes' = PowNode(nodes, i, IF other.isValue THEN 1 ELSE other.v)
    /\ err' = IF other.isValue THEN "AssertionError" ELSE ""
    /\ last' = Call("pow", i, other, nodes)

\* nodes[i] ** other:  assert isinstance(other, (int, float)), then the node
Pow(i, other) ==
    /\ IF other.isValue
       THEN /\ nodes' = nodes
            /\ err' = "AssertionError"
       ELSE /\ nodes' = PowNode(nodes, i, other.v)
            /\ err' = ""
    /\ last' = Call("pow", i, other, nodes)

MaxExponent == SetMax(Exponents)

PowCall(limit) ==
    /\ Len(nodes) < limit
    /\ \E i \in {k \in Ids(nodes) : InRange(PowNode(nodes, k, MaxExponent))} :
          \E other \in {NodeArg(j) : j \in Ids(nodes)} \cup {LitArg(n) : n \in Exponents} :
             Pow(i, other)
    /\ UNCHANGED hist
    /\ UnchangedModule

\* root.backward() under the order choice h; `alt` holds the gradients the
\* same call leaves from the same graph under each of the order choices.
Backward(root, h) ==
    /\ nodes' = BackwardResult(nodes, root, h)
    /\ err' = ""
    /\ last' = [Call("backward", root, NoArg, nodes) EXCEPT
                   !.topo = Topo(nodes, root, h),
                   !.alt = {Grads(BackwardResult(nodes, root, h2)) :
                               h2 \in OrderChoices(nodes, root)}]

BackwardCall(limit) ==
    /\ BackwardCalls < limit
    /\ \E root \in Ids(nodes) :
          \E h \in OrderChoices(nodes, root) : Backward(root, h)
    /\ hist' = Append(hist, [op |-> "backward", root |-> 0, pgrads |-> <<>>])
    /\ UnchangedModule

NoModule ==
    /\ layers = <<>>
    /\ kind = ""
    /\ out = [ok |-> TRUE, isList |-> FALSE, ids |-> <<>>]
    /\ hist = <<>>

\* Spec: the caller builds any graph of at most MaxNodes nodes and calls
\* backward on any of its nodes.
Init ==
    /\ nodes = <<>>
    /\ err = ""
    /\ last = Call("", 0, NoArg, <<>>)
    /\ NoModule

Next ==
    \/ NewValue
    \/ Add(MaxNodes)
    \/ Mul(MaxNodes)
    \/ PowCall(MaxNodes)
    \/ BackwardCall(MaxBackward)

Spec == Init /\ [][Next]_vars

\* SpecOps: two leaves a (node 1) and b (node 2), MaxOps operations on them
\* and MaxPasses backward calls.
OpNodes == 2 + MaxOps

InitOps ==
    /\ \E a \in LeafVals, b \in LeafVals :
          nodes = <<Value(a, <<>>, "", 0), Value(b, <<>>, "", 0)>>
    /\ err = ""
    /\ last = Call("", 0, NoArg, <<>>)
    /\ NoModule

NextOps ==
    \/ Add(OpNodes)
    \/ Mul(OpNodes)
    \/ PowCall(OpNodes)
    \/ BackwardCall(MaxPasses)

SpecOps == InitOps /\ [][NextOps]_vars

\* ------------------------------------------------------------ nn.py
\* random.uniform(-1, 1): the k-th draw of the source seeded with seed
WeightSeq == <<1, -1, 0>>
Uniform(seed, k) == WeightSeq[((k + seed) % Len(WeightSeq)) + 1]

\* Neuron.__init__: w = [Value(random.uniform(-1,1)) for _ in range(n)],
\* b = Value(random.uniform(-1, 1)).  st = [ns, made]: the graph and the
\* neurons constructed so far.
NewNeuron(st, nin, seed) ==
    LET base == Len(st.ns)
        leaves == [k \in 1..(nin + 1) |-> Value(Uniform(seed, base + k), <<>>, "", 0)]
    IN [ns |-> st.ns \o leaves,
        made |-> Append(st.made, [w |-> [k \in 1..nin |-> base + k],
                                  b |-> base + nin + 1])]

RECURSIVE NewNeurons(_, _, _, _)
NewNeurons(st, nin, n, seed) ==
    IF n = 0 THEN st ELSE NewNeurons(NewNeuron(st, nin, seed), nin, n - 1, seed)

\* Layer.__init__: neurons = [Neuron(nin) for _ in range(nout)]
\* st = [ns, made]: the graph and the layers constructed so far.
NewLayer(st, nin, nout, seed) ==
    LET l == NewNeurons([ns |-> st.ns, made |-> <<>>], nin, nout, seed)
    IN [ns |-> l.ns, made |-> Append(st.made, l.made)]

RECURSIVE NewLayers(_, _, _, _)
\* MLP.__init__: layer_sizes = [num_inputs] + num_outputs_array;
\* layers = [Layer(n_in, n_out) for n_in, n_out in zip(layer_sizes, layer_sizes[1:])]
NewLayers(st, layer_sizes, k, seed) ==
    IF k >= Len(layer_sizes) THEN st
    ELSE NewLayers(NewLayer(st, layer_sizes[k], layer_sizes[k + 1], seed),
                   layer_sizes, k + 1, seed)

NewMLP(nin, nouts, seed) ==
    NewLayers([ns |-> <<>>, made |-> <<>>], <<nin>> \o nouts, 1, seed)

\* what a call receives or returns: a list of Values or one Value
ListOf(ids) == [isList |-> TRUE, ids |-> ids]
One(id) == [isList |-> FALSE, ids |-> <<id>>]

Min(a, b) == IF a <= b THEN a ELSE b

RECURSIVE SumProducts(_, _, _, _, _)
\* sum((wi*xi for wi, xi in zip(self.w, x)), self.b): from acc = b, for each
\* pair the product and then acc + product
SumProducts(ns, acc, w, x, k) ==
    IF k > Min(Len(w), Len(x)) THEN [ns |-> ns, acc |-> acc]
    ELSE Only({SumProducts(ns2, Len(ns2), w, x, k + 1) :
                  ns2 \in {AddNode(MulNode(ns, w[k], NodeArg(x[k])), acc,
                                   NodeArg(Len(ns) + 1))}})

\* Neuron.__call__: act = sum(...); out = act.tanh().  zip raises TypeError
\* when x is one Value and not a list.
NeuronCall(ns, neuron, x) ==
    IF ~x.isList THEN [ns |-> ns, ok |-> FALSE, val |-> x]
    ELSE Only({[ns |-> ns1, ok |-> TRUE, val |-> One(Len(ns1))] :
                  ns1 \in {TanhNode(s.ns, s.acc) :
                              s \in {SumProducts(ns, neuron.b, neuron.w, x.ids, 1)}}})

RECURSIVE CallNeurons(_, _, _, _)
\* outs = [n(x) for n in self.neurons]; st = [ns, ok, outs]
CallNeurons(st, neurons, x, k) ==
    IF k > Len(neurons) \/ ~st.ok THEN st
    ELSE Only({CallNeurons([ns |-> r.ns, ok |-> r.ok,
                            outs |-> IF r.ok THEN st.outs \o r.val.ids ELSE st.outs],
                           neurons, x, k + 1) :
                  r \in {NeuronCall(st.ns, neurons[k], x)}})

\* Layer.__call__: return outs[0] if len(outs) == 1 else outs
LayerCall(ns, neurons, x) ==
    Only({[ns |-> st.ns, ok |-> st.ok,
           val |-> IF ~st.ok THEN x
                   ELSE IF Len(st.outs) = 1 THEN One(st.outs[1]) ELSE ListOf(st.outs)] :
             st \in {CallNeurons([ns |-> ns, ok |-> TRUE, outs |-> <<>>], neurons, x, 1)}})

RECURSIVE MLPCall(_, _, _, _)
\* MLP.__call__: for layer in self.layers: x = layer(x); return x
MLPCall(ns, ls, x, k) ==
    IF k > Len(ls) THEN [ns |-> ns, ok |-> TRUE, val |-> x]
    ELSE Only({IF r.ok THEN MLPCall(r.ns, ls, r.val, k + 1) ELSE r :
                  r \in {LayerCall(ns, ls[k], x)}})

RECURSIVE Concat(_)
Concat(ss) == IF ss = <<>> THEN <<>> ELSE Head(ss) \o Concat(Tail(ss))

\* Neuron.parameters: self.w + [self.b]
NeuronParameters(neuron) == Append(neuron.w, neuron.b)

\* Layer.parameters: the parameters of each neuron, in order
LayerParameters(neurons) ==
    Concat([k \in 1..Len(neurons) |-> NeuronParameters(neurons[k])])

\* MLP.parameters: [p for layer in self.layers for p in layer.parameters()]
\* (a Neuron or a Layer under test is held as one layer)
Parameters == Concat([k \in 1..Len(layers) |-> LayerParameters(layers[k])])

RECURSIVE zero_grad(_, _)
\* Module.zero_grad: for p in self.parameters(): p.grad = 0
zero_grad(ns, ps) ==
    IF ps = <<>> THEN ns
    ELSE Only({zero_grad(ns1, Tail(ps)) : ns1 \in {[ns EXCEPT ![Head(ps)].grad = 0]}})

ParamGrads(ns) == [k \in 1..Len(Parameters) |-> ns[Parameters[k]].grad]

Logged(name, root, ns) == [op |-> name, root |-> root, pgrads |-> ParamGrads(ns)]

ForwardCalls == Len(SelectSeq(hist, LAMBDA e : e.op = "forward"))

\* module(x) for the module under test
ModuleCall(ns, x) ==
    CASE kind = "Neuron" -> NeuronCall(ns, layers[1][1], x)
      [] kind = "Layer" -> LayerCall(ns, layers[1], x)
      [] OTHER -> MLPCall(ns, layers, x, 1)

\* the caller wraps its numbers into Values and calls the module on them
Forward ==
    /\ ForwardCalls < MaxForward
    /\ Len(hist) < MaxCalls
    /\ \E xs \in [1..Len(layers[1][1].w) -> InputVals] :
          \E r \in {ModuleCall(nodes \o [k \in 1..Len(xs) |-> Value(xs[k], <<>>, "", 0)],
                                ListOf([k \in 1..Len(xs) |-> Len(nodes) + k]))} :
             /\ nodes' = r.ns
             /\ err' = IF r.ok THEN "" ELSE "TypeError"
             /\ out' = [ok |-> r.ok, isList |-> r.ok /\ r.val.isList,
                        ids |-> IF r.ok THEN r.val.ids ELSE <<>>]
             /\ last' = Call("forward", 0, NoArg, nodes)
             /\ hist' = Append(hist, Logged("forward", 0, r.ns))
    /\ UNCHANGED <<layers, kind>>

\* backward() on a Value the forward call returned
BackwardOut ==
    /\ Len(hist) < MaxCalls
    /\ \E k \in 1..Len(out.ids) :
          \E h \in OrderChoices(nodes, out.ids[k]) :
             /\ Backward(out.ids[k], h)
             /\ hist' = Append(hist, Logged("backward", out.ids[k], nodes'))
    /\ UnchangedModule

\* zero_grad() on the module
ZeroGrad ==
    /\ Len(hist) < MaxCalls
    /\ nodes' = zero_grad(nodes, Parameters)
    /\ err' = ""
    /\ last' = Call("zero_grad", 0, NoArg, nodes)
    /\ hist' = Append(hist, Logged("zero_grad", 0, nodes'))
    /\ UnchangedModule

RECURSIVE Widths(_)
\* the sequences of at most n layer widths
Widths(n) ==
    IF n = 0 THEN {}
    ELSE {<<m>> : m \in 1..MaxWidth}
            \cup {Append(ws, m) : ws \in Widths(n - 1), m \in 1..MaxWidth}

\* SpecNN: a Neuron, a Layer or an MLP is constructed, called once on input
\* nodes, and backward / zero_grad are called on its output and on it.
InitNN ==
    /\ \E nin \in 1..MaxInputs, nouts \in Widths(MaxLayers), seed \in 0..(NumSeeds - 1) :
          \E kd \in {"Neuron", "Layer", "MLP"} :
             /\ kd = "Neuron" => nouts = <<1>>
             /\ kd = "Layer" => Len(nouts) = 1
             /\ kind = kd
             /\ nodes = NewMLP(nin, nouts, seed).ns
             /\ layers = NewMLP(nin, nouts, seed).made
    /\ err = ""
    /\ last = Call("", 0, NoArg, <<>>)
    /\ out = [ok |-> TRUE, isList |-> FALSE, ids |-> <<>>]
    /\ hist = <<>>

NextNN == Forward \/ BackwardOut \/ ZeroGrad

SpecNN == InitNN /\ [][NextNN]_vars

\* ------------------------------------------------------------ properties
RECURSIVE SumOver(_, _)
SumOver(S, f) ==
    IF S = {} THEN 0
    ELSE LET x == CHOOSE y \in S : TRUE IN f[x] + SumOver(S \ {x}, f)

\* d(c)/d(n) along the operand edges from c to n, for c made by + or *
LocalDerivative(ns, c, n) ==
    LET a == ns[c].args[1]
        b == ns[c].args[2]
    IN IF ns[c].op = "+"
       THEN (IF a = n THEN 1 ELSE 0) + (IF b = n THEN 1 ELSE 0)
       ELSE (IF a = n THEN ns[b].data ELSE 0) + (IF b = n THEN ns[a].data ELSE 0)

RECURSIVE TotalDerivative(_, _, _)
\* d(root)/d(n) by the chain rule, summed over the consumers of n
TotalDerivative(ns, root, n) ==
    IF n = root THEN 1
    ELSE LET cs == {c \in Reach(ns, {root}) : n \in ns[c].prev}
         IN SumOver(cs, [c \in cs |->
                TotalDerivative(ns, root, c) * LocalDerivative(ns, c, n)])

IsLeaf(ns, v) == ns[v].prev = {}
AfterBackward == last.op = "backward"
ZeroBefore == \A k \in Ids(last.before) : last.before[k].grad = 0
Positions(seq, v) == {k \in 1..Len(seq) : seq[k] = v}

\* C1: on a graph of + and * over leaves, with every gradient 0 beforehand,
\* backward(root) leaves in every node reachable from root the total
\* derivative of root with respect to that node.
C1_TotalDerivative ==
    (/\ AfterBackward
     /\ ZeroBefore
     /\ \A v \in Reach(nodes, {last.root}) : nodes[v].op \in {"", "+", "*"})
    => \A v \in Reach(nodes, {last.root}) :
          nodes[v].grad = TotalDerivative(nodes, last.root, v)

\* C3: the gradients backward(root) leaves do not depend on the order in
\* which the operand sets are iterated.
C3_OrderIndependent ==
    AfterBackward => last.alt = {Grads(nodes)}

\* C9: the sequence backward(root) builds holds every node reachable from
\* root exactly once, every node after all of its operands, the root last.
C9_TopoOrder ==
    AfterBackward =>
        LET topo == last.topo
        IN /\ \A v \in Reach(nodes, {last.root}) : Cardinality(Positions(topo, v)) = 1
           /\ \A k \in 1..Len(topo) : topo[k] \in Reach(nodes, {last.root})
           /\ \A k \in 1..Len(topo) : \A c \in nodes[topo[k]].prev :
                 \E j \in 1..(k - 1) : topo[j] = c
           /\ topo[Len(topo)] = last.root

\* C10: in the reverse walk the rule of a node is invoked only after the
\* rules of all of its consumers reachable from root, and every consumer's
\* rule is invoked exactly once per pass.  Stated for the nodes that have
\* operands: the rule of a leaf does nothing.
C10_WalkOrder ==
    AfterBackward =>
        LET walk == Reverse(last.topo)
            R == Reach(nodes, {last.root})
        IN /\ \A k \in {j \in 1..Len(walk) : ~IsLeaf(nodes, walk[j])} :
                 \A c \in {x \in R : walk[k] \in nodes[x].prev} :
                    /\ Positions(walk, c) # {}
                    /\ \A j \in Positions(walk, c) : j < k
           /\ \A c \in {x \in R : ~IsLeaf(nodes, x)} :
                 Cardinality(Positions(walk, c)) = 1

\* the root of the last backward call is one operation on leaves
SingleOp == AfterBackward /\ ~IsLeaf(nodes, last.root)
               /\ \A v \in nodes[last.root].prev : IsLeaf(nodes, v)

\* C4: when the same leaf a (gradient 0) is both operands of one operation,
\* backward on the result adds both contributions: 2 for a + a and
\* 2 * a.data for a * a, although the operand set holds a once.
C4_FanOutSingleOp ==
    (SingleOp /\ ZeroBefore /\ nodes[last.root].op \in {"+", "*"}
        /\ nodes[last.root].args[1] = nodes[last.root].args[2])
    => LET a == nodes[last.root].args[1]
       IN /\ nodes[last.root].prev = {a}
          /\ nodes[last.root].op = "+" => nodes[a].grad = 2
          /\ nodes[last.root].op = "*" => nodes[a].grad = 2 * nodes[a].data

C4_Witness ==
    /\ SingleOp /\ ZeroBefore
    /\ nodes[last.root].op = "+"
    /\ nodes[last.root].args = <<1, 1>>
    /\ nodes[1].grad = 2

\* C5: backward assigns only the root's gradient, to exactly 1 whatever it
\* held; it resets nothing: a node that is not reachable keeps its gradient
\* and the leaf operands of a single-operation root hold their gradient of
\* before the pass plus the contribution of this pass.
C5_NoImplicitReset ==
    AfterBackward =>
        LET r == last.root
            pre == Grads(last.before)
        IN /\ nodes[r].grad = 1
           /\ \A v \in Ids(nodes) \ Reach(nodes, {r}) : nodes[v].grad = pre[v]
           /\ (SingleOp /\ nodes[r].op \in {"+", "*"}) =>
                 \A v \in nodes[r].prev :
                    nodes[v].grad = pre[v] + LocalDerivative(nodes, r, v)

\* two consecutive backward(c) on c = a * b: a.grad = 2 * b.data,
\* b.grad = 2 * a.data, c.grad = 1
C5_Witness ==
    /\ SingleOp
    /\ nodes[last.root].op = "*"
    /\ nodes[last.root].args = <<1, 2>>
    /\ Grads(last.before) = <<nodes[2].data, nodes[1].data, 1>>
    /\ Grads(nodes) = <<2 * nodes[2].data, 2 * nodes[1].data, 1>>

\* C6: power with a graph node as exponent fails, creates no node and leaves
\* every existing node as it was.
C6_PowGuard ==
    (last.op = "pow" /\ last.arg.isValue) =>
        /\ err # ""
        /\ nodes = last.before

C6_Witness ==
    /\ last.op = "pow" /\ last.arg.isValue
    /\ err = "AssertionError"
    /\ Len(nodes) = 2

\* C8: for out = op(a, b) on distinct leaves with gradients 0, backward(out)
\* yields out.grad = 1 and: add, a.grad = b.grad = 1; multiply,
\* a.grad = b.data and b.grad = a.data; power with a fixed exponent p,
\* a.grad = p * a.data ** (p - 1).
C8_SingleOpRules ==
    (SingleOp /\ ZeroBefore) =>
        LET r == last.root
            a == nodes[r].args[1]
        IN /\ nodes[r].grad = 1
           /\ (nodes[r].op = "+" /\ nodes[r].args[2] # a) =>
                 nodes[a].grad = 1 /\ nodes[nodes[r].args[2]].grad = 1
           /\ (nodes[r].op = "*" /\ nodes[r].args[2] # a) =>
                 /\ nodes[a].grad = nodes[nodes[r].args[2]].data
                 /\ nodes[nodes[r].args[2]].grad = nodes[a].data
           /\ nodes[r].op = "**" =>
                 nodes[a].grad = nodes[r].p * IPow(nodes[a].data, nodes[r].p - 1)

\* a = 2, b = -3, c = a * b: a.grad = -3, b.grad = 2
C8_Witness ==
    /\ SingleOp /\ ZeroBefore
    /\ nodes[last.root].op = "*"
    /\ nodes[last.root].args = <<1, 2>>
    /\ nodes[1].data = 2 /\ nodes[2].data = -3
    /\ nodes[1].grad = -3 /\ nodes[2].grad = 2

\* C2: after one forward evaluation, backward(root); reset; backward(root)
\* leaves every parameter's gradient 0 right after the reset and, after the
\* second backward, equal to its gradient after the first.
C2_ResetReproduces ==
    \A k \in 1..Len(hist) :
        (/\ k + 2 <= Len(hist)
         /\ hist[k].op = "forward"
         /\ hist[k + 1].op = "backward"
         /\ hist[k + 2].op = "zero_grad")
        => /\ \A p \in 1..Len(Parameters) : hist[k + 2].pgrads[p] = 0
           /\ (/\ k + 3 <= Len(hist)
               /\ hist[k + 3].op = "backward"
               /\ hist[k + 3].root = hist[k + 1].root)
              => hist[k + 3].pgrads = hist[k + 1].pgrads

\* C7: for every input width and every non-empty sequence of layer widths,
\* the forward call of an MLP completes and returns one node per neuron of
\* the last layer, the single node unwrapped when that layer has one neuron.
C7_ForwardThreads ==
    (kind = "MLP" /\ last.op = "forward") =>
        LET width == Len(layers[Len(layers)])
        IN /\ out.ok
           /\ err = ""
           /\ Len(out.ids) = width
           /\ out.isList <=> width # 1
           /\ \A k \in 1..Len(out.ids) : nodes[out.ids[k]].op = "tanh"

====
